---- MODULE Spec2Model ----
(***************************************************************************)
(* Model of the dashboard's chat session state machine:                    *)
(*   EnhancedDashboard  (state owner: transcript, settings, mode, files)   *)
(*   InteractiveChat    (handleSendMessage, per-mount inputValue/isLoading) *)
(*   BackendApiService  (request encoding and routing)                     *)
(* JavaScript runs handlers to completion; an action is one handler run up *)
(* to its next await, or the continuation that runs when a call settles.   *)
(* Optional values (undefined | v) are sequences of length 0 or 1.         *)
(* Text is a sequence of strings.                                          *)
(***************************************************************************)
EXTENDS Integers, Sequences, FiniteSets, TLC

\* ---------------------------------------------------------------- bounds
MaxSubmits == 2
MaxClock == 1
MaxCalls == 1
MaxReloads == 1
MaxWire == 2
MaxDrops == 2

\* ------------------------------------------------------- program constants
API_BASE_URL == "http://localhost:8000"
LOCAL_MODEL_API_BASE_URL == "http://localhost:8001"

\* Settings are scaled integers: temperature and similarity_threshold in
\* tenths (0.2 -> 2, 0.7 -> 7), top_k as is.
DefaultTemperature == 2
DefaultTopK == 5
DefaultSimilarityThreshold == 7

DefaultSettings ==
  [temperature |-> DefaultTemperature, top_k |-> DefaultTopK,
   similarity_threshold |-> DefaultSimilarityThreshold]

\* ------------------------------------------------------------ input sets
Modes == {"api", "model"}
Tabs == {"chat", "files", "diagrams", "modules", "performance"}
\* the tabs navigated to: diagrams, modules and performance render no chat,
\* like files, and differ from one another in nothing modelled here
NavTabs == {"chat", "files"}
SettingsChoices ==
  { DefaultSettings,
    [temperature |-> 0, top_k |-> 3, similarity_threshold |-> 4] }
FileLists == { <<>>, <<"a.c">> }
Responses ==
  { [answer |-> <<>>, retrieved_context |-> <<>>],
    [answer |-> <<"ans">>, retrieved_context |-> <<"chunk">>] }
Failures ==
  { [kind |-> "transport", status |-> "0", body |-> <<>>],
    [kind |-> "http", status |-> "500", body |-> <<"boom">>] }
Outcomes ==
  { [ok |-> TRUE, response |-> r, failure |-> <<>>] : r \in Responses } \cup
  { [ok |-> FALSE, response |-> <<>>, failure |-> <<f>>] : f \in Failures }

\* texts typed into the chat input, as sequences of characters
Inputs == { <<>>, <<" ", "q", " ">> }
\* code chunks of a retrieved context; content is a sequence of characters,
\* function_name is absent, the empty string or a name
Chunks ==
  { [source |-> "a.c", type |-> t, function_name |-> f, content |-> c] :
      t \in {"code", "class"},
      f \in { <<>>, <<"">>, <<"parseInput">> },
      c \in { <<"x">>,
              <<"c", "l", "a", "s", "s">>,
              <<"c", "l", "a", "s", "s", " ", "A">>,
              <<"a", "s", "t", "r", "u", "c", "t", " ", "S">> } }
\* the mermaid text a diagram call may answer with
DiagramAnswers == { <<"graph LR">> }

\* names of the files dropped or selected, as sequences of characters:
\* a.c, B.PY, n.txt and zip
FileNames ==
  { <<"a", ".", "c">>, <<"B", ".", "P", "Y">>,
    <<"n", ".", "t", "x", "t">>, <<"z", "i", "p">> }
\* the files of one drop or selection
DroppedFiles ==
  {<<>>} \cup { <<n>> : n \in FileNames }
         \cup { <<n, m>> : n \in FileNames, m \in FileNames }
\* how a call of onFilesUploaded ends: resolved, rejected with an Error, or
\* rejected with a value that is no Error
UploadOutcomes ==
  { [kind |-> "resolved", message |-> <<>>],
    [kind |-> "Error", message |-> <<"Upload failed: ", "boom">>],
    [kind |-> "value", message |-> <<>>] }

\* texts of spaces only
BlankInputs == { <<" ">>, <<" ", " ">> }

VARIABLES
  \* EnhancedDashboard state
  hasBackendFiles, localFiles, loading, activeTab, chatMessages, backendMode,
  chatSettings, queryHistory, lastRetrievedContext,
  \* browser
  localStorage, alertShown, clock, uncaught,
  \* InteractiveChat state of the mounted instance
  inputValue, isLoading, currentChunkDiagram, showChunkDiagramModal,
  \* calls in flight
  asks, listCalls, clearCalls, diagramCalls,
  \* startup: the phase of the mount and the state updates it has queued
  boot,
  \* the requests handed to fetch by the client operations called so far
  wire,
  \* history: durable storage as the process found it, and the restarts
  storedAtStart, reloads,
  \* connectivity status of the dashboard and its health checks in flight
  backendStatus, healthCalls,
  \* FileUpload state, and its calls of onFilesUploaded in flight
  isDragging, isProcessing, error, uploadCalls,
  \* history: the files of the last drop or selection, and their number
  dropped, drops,
  \* the requests of wire answered with a failure, and the Error each threw
  rejected,
  \* history: the number of accepted submits, of asks that settled with a
  \* response and of asks that settled with a failure
  submits, nOk, nErr

dashVars == <<hasBackendFiles, localFiles, loading, activeTab, chatMessages,
              backendMode, chatSettings, queryHistory, lastRetrievedContext>>
envVars == <<localStorage, alertShown, clock, uncaught>>
chatVars == <<inputValue, isLoading, currentChunkDiagram, showChunkDiagramModal>>
callVars == <<asks, listCalls, clearCalls, diagramCalls>>
histVars == <<submits, nOk, nErr>>
bootVars == <<boot, storedAtStart, reloads>>
healthVars == <<backendStatus, healthCalls>>
uploadVars == <<isDragging, isProcessing, error, uploadCalls, dropped, drops>>
vars == <<dashVars, envVars, chatVars, callVars, histVars, bootVars, wire,
          healthVars, uploadVars, rejected>>

\* ------------------------------------------------------------- helpers
Last(s) == s[Len(s)]
RemoveAt(s, i) == [k \in 1..(Len(s) - 1) |-> IF k < i THEN s[k] ELSE s[k + 1]]
Map(f(_), s) == [k \in 1..Len(s) |-> f(s[k])]

\* String.prototype.trim on a sequence of characters
RECURSIVE TrimLeft(_)
TrimLeft(s) == IF s # <<>> /\ Head(s) = " " THEN TrimLeft(Tail(s)) ELSE s
RECURSIVE TrimRight(_)
TrimRight(s) ==
  IF s # <<>> /\ Last(s) = " " THEN TrimRight(SubSeq(s, 1, Len(s) - 1)) ELSE s
Trim(s) == TrimRight(TrimLeft(s))

\* Number.prototype.toString: injective on the integers
NumberToString(n) == [digits |-> n]

\* JavaScript's a || b on numbers: 0 is falsy
OrDefault(x, d) == IF x = 0 THEN d ELSE x

\* ------------------------------------------------ JSON / localStorage
StorageKeys == {"chatMessages", "chatSettings", "uploadedFiles", "backendMode"}

\* JSON.stringify of one ChatMessage: the Date becomes its ISO text,
\* undefined members are dropped (they stay absent).
StringifyMessage(m) ==
  [id |-> m.id, type |-> m.type, content |-> m.content,
   timestamp |-> [iso |-> m.timestamp],
   response |-> m.response, isLoading |-> m.isLoading]
StringifyMessages(ms) == [json |-> "array", value |-> Map(StringifyMessage, ms)]
StringifySettings(s) == [json |-> "object", value |-> s]
StringifyFiles(fs) == [json |-> "array", value |-> fs]

\* a stored text that JSON.parse rejects with a SyntaxError
Malformed == [json |-> "malformed", value |-> <<>>]
Decodable(text) == text.json # "malformed"

\* variant: every restored timestamp is the time of the load
NewDateNow(text) == clock

\* new Date(iso): the timestamp value the ISO text denotes
NewDate(text) == text.iso

\* JSON.parse of the stored transcript, each timestamp made a Date again
ParseMessage(msg) ==
  [id |-> msg.id, type |-> msg.type, content |-> msg.content,
   timestamp |-> NewDate(msg.timestamp),
   response |-> msg.response, isLoading |-> msg.isLoading]
ParseMessages(text) == Map(ParseMessage, text.value)
ParseSettings(text) == text.value

SetItem(store, key, text) == [store EXCEPT ![key] = <<text>>]
RemoveItem(store, key) == [store EXCEPT ![key] = <<>>]
NoStorage == [k \in StorageKeys |-> <<>>]

\* ------------------------------------------------ BackendApiService
\* variant: the address follows the mode of the session, not the argument
getBaseUrlOfSession(mode) ==
  IF backendMode = "api" THEN API_BASE_URL ELSE LOCAL_MODEL_API_BASE_URL

getBaseUrl(mode) == IF mode = "api" THEN API_BASE_URL ELSE LOCAL_MODEL_API_BASE_URL

\* request(endpoint, options, mode): the single fetch that is issued
request(endpoint, method, body, mode) ==
  [url |-> <<getBaseUrl(mode), endpoint>>, method |-> method, body |-> body]

askQuestion(req) ==
  request("/ask/", "POST",
          [field |-> "query", text |-> req.query,
           temperature |-> OrDefault(req.temperature, DefaultTemperature),
           top_k |-> OrDefault(req.top_k, DefaultTopK),
           similarity_threshold |->
             OrDefault(req.similarity_threshold, DefaultSimilarityThreshold)],
          "api")

\* variant: the local operation names the text as the primary one does
askModelQuestionAsQuery(req) ==
  request("/ask_model", "POST",
          [field |-> "query", text |-> req.query,
           temperature |-> OrDefault(req.temperature, DefaultTemperature),
           top_k |-> OrDefault(req.top_k, DefaultTopK),
           similarity_threshold |->
             OrDefault(req.similarity_threshold, DefaultSimilarityThreshold)],
          "model")

askModelQuestion(req) ==
  request("/ask_model", "POST",
          [field |-> "question", text |-> req.query,
           temperature |-> OrDefault(req.temperature, DefaultTemperature),
           top_k |-> OrDefault(req.top_k, DefaultTopK),
           similarity_threshold |->
             OrDefault(req.similarity_threshold, DefaultSimilarityThreshold)],
          "model")

checkHealth == request("/health", "GET", <<>>, "api")
listCodebaseFiles == request("/list_codebase", "GET", <<>>, "api")
\* the upload is a fetch of its own, with the primary address spelled out
uploadCodeFiles(file) ==
  [url |-> <<API_BASE_URL, "/upload_codebase">>, method |-> "POST",
   body |-> [file |-> file]]
clearCodebase == request("/clear_codebase", "POST", <<>>, "api")
generateModuleDiagram(payload) ==
  request("/generate_module_diagram", "POST", payload, "model")
generateChunkDiagram(payload) ==
  request("/generate_chunk_diagram", "POST", payload, "model")

\* message of the Error a failed request rejects with
ErrorMessage(f) ==
  IF f.kind = "http"
    THEN <<"HTTP ", f.status, ": ">> \o f.body
    ELSE <<"Failed to fetch">>

\* message of the Error a failed upload rejects with
UploadErrorMessage(f) ==
  IF f.kind = "http"
    THEN <<"Upload failed: ">> \o f.body
    ELSE <<"Failed to fetch">>

\* ------------------------------------------------ InteractiveChat
NoResponseText == <<"No response received">>

UserMessage(t, text) ==
  [id |-> NumberToString(t), type |-> "user", content |-> text,
   timestamp |-> t, response |-> <<>>, isLoading |-> <<>>]

BotMessage(t) ==
  [id |-> NumberToString(t + 1), type |-> "bot", content |-> <<>>,
   timestamp |-> t, response |-> <<>>, isLoading |-> <<TRUE>>]

\* the chat component is rendered only past the loading screen, with files
\* loaded and on the chat tab
ChatMountedIn(l, h, t) == ~l /\ h /\ t = "chat"
ChatMounted == ChatMountedIn(loading, hasBackendFiles, activeTab)

\* continuations of an unmounted instance can no longer set its state
Orphaned(as) == [k \in 1..Len(as) |-> [as[k] EXCEPT !.live = FALSE]]

\* effect of a re-render with (l, h, t) on the chat instance; as is the new
\* list of asks in flight
Rerender(l, h, t, as) ==
  IF ChatMounted /\ ChatMountedIn(l, h, t)
    THEN /\ UNCHANGED chatVars
         /\ asks' = as
         /\ UNCHANGED diagramCalls
    ELSE /\ inputValue' = <<>>
         /\ isLoading' = FALSE
         /\ currentChunkDiagram' = <<>>
         /\ showChunkDiagramModal' = FALSE
         /\ asks' = Orphaned(as)
         /\ diagramCalls' = Orphaned(diagramCalls)

\* variant: the transcript is replaced and nothing is stored
SetChatMessagesUnsaved(ms, store) ==
  /\ chatMessages' = ms
  /\ localStorage' = store

\* setChatMessages(ms) followed by the persisting effect
SetChatMessages(ms, store) ==
  /\ chatMessages' = ms
  /\ localStorage' = SetItem(store, "chatMessages", StringifyMessages(ms))

\* the mount has completed and has no state update queued
Started == [phase |-> "started", chatMessages |-> <<>>, chatSettings |-> <<>>]
Constructed == [phase |-> "constructed", chatMessages |-> <<>>, chatSettings |-> <<>>]
Crashed == [phase |-> "crashed", chatMessages |-> <<>>, chatSettings |-> <<>>]

\* the state after the first mount of a browser with empty storage
Init ==
  /\ hasBackendFiles = FALSE
  /\ localFiles = <<>>
  /\ loading = TRUE
  /\ activeTab = "chat"
  /\ chatMessages = <<>>
  /\ backendMode = "api"
  /\ chatSettings = DefaultSettings
  /\ queryHistory = <<>>
  /\ lastRetrievedContext = <<>>
  /\ localStorage =
       [k \in StorageKeys |->
          CASE k = "chatMessages" -> <<StringifyMessages(<<>>)>>
            [] k = "chatSettings" -> <<StringifySettings(DefaultSettings)>>
            [] OTHER -> <<>>]
  /\ alertShown = FALSE
  /\ clock = 0
  /\ uncaught = {}
  /\ inputValue = <<>>
  /\ isLoading = FALSE
  /\ currentChunkDiagram = <<>>
  /\ showChunkDiagramModal = FALSE
  /\ asks = <<>>
  /\ listCalls = <<[fromUpload |-> FALSE]>>
  /\ clearCalls = 0
  /\ diagramCalls = <<>>
  /\ submits = 0
  /\ nOk = 0
  /\ nErr = 0
  /\ boot = Started
  /\ wire = <<>>
  /\ storedAtStart = NoStorage
  /\ reloads = 0
  /\ backendStatus = "checking"
  /\ healthCalls = 1
  /\ isDragging = FALSE
  /\ isProcessing = FALSE
  /\ error = <<>>
  /\ uploadCalls = <<>>
  /\ dropped = <<>>
  /\ drops = 0
  /\ rejected = <<>>

\* what a browser may hold for the page when the process starts: nothing,
\* an undecodable text, or what an earlier run of the page stored
PastTranscript ==
  <<UserMessage(0, <<"q">>),
    [BotMessage(0) EXCEPT
       !.content = <<"ans">>,
       !.response = <<[answer |-> <<"ans">>, retrieved_context |-> <<"chunk">>]>>,
       !.isLoading = <<FALSE>>]>>
StoredStates ==
  { [k \in StorageKeys |->
       CASE k = "chatMessages" -> m
         [] k = "chatSettings" -> c
         [] k = "uploadedFiles" -> f
         [] OTHER -> b] :
      m \in { <<>>, <<Malformed>>, <<StringifyMessages(<<>>)>>,
              <<StringifyMessages(PastTranscript)>> },
      c \in { <<>>, <<Malformed>> } \cup
            { <<StringifySettings(x)>> : x \in SettingsChoices },
      f \in { <<>>, <<Malformed>>, <<StringifyFiles(<<"a.c">>)>> },
      b \in { <<>>, <<"model">>, <<"">>, <<"bogus">> } }

\* useState(localStorage.getItem('backendMode') || 'api')
InitialBackendMode(store) ==
  IF store["backendMode"] # <<>> /\ store["backendMode"][1] # ""
    THEN store["backendMode"][1]
    ELSE "api"

\* the component as constructed over the storage store, before its effects
ConstructedOver(store) ==
  /\ hasBackendFiles = FALSE
  /\ localFiles = <<>>
  /\ loading = TRUE
  /\ activeTab = "chat"
  /\ chatMessages = <<>>
  /\ backendMode = InitialBackendMode(store)
  /\ chatSettings = DefaultSettings
  /\ queryHistory = <<>>
  /\ lastRetrievedContext = <<>>
  /\ localStorage = store
  /\ alertShown = FALSE
  /\ uncaught = {}
  /\ inputValue = <<>>
  /\ isLoading = FALSE
  /\ currentChunkDiagram = <<>>
  /\ showChunkDiagramModal = FALSE
  /\ asks = <<>>
  /\ listCalls = <<>>
  /\ clearCalls = 0
  /\ diagramCalls = <<>>
  /\ boot = Constructed
  /\ storedAtStart = store
  /\ backendStatus = "checking"
  /\ healthCalls = 0
  /\ isDragging = FALSE
  /\ isProcessing = FALSE
  /\ error = <<>>
  /\ uploadCalls = <<>>
  /\ dropped = <<>>
  /\ drops = 0
  /\ rejected = <<>>

\* a process started over any storage
InitStored ==
  /\ \E store \in StoredStates : ConstructedOver(store)
  /\ clock = 0
  /\ submits = 0
  /\ nOk = 0
  /\ nErr = 0
  /\ wire = <<>>
  /\ reloads = 0

\* the effects of the first commit, in order: the mount effect (the listing
\* is started, the stored transcript and settings are read and queued as
\* state updates), then the two persisting effects with the state of the
\* first render. A JSON.parse that throws ends the mount effect and unmounts
\* the tree; whether the persisting effects of that commit have run is left
\* open.
mountEffects ==
  /\ boot.phase = "constructed"
  /\ healthCalls' = healthCalls + 1
  /\ listCalls' = Append(listCalls, [fromUpload |-> FALSE])
  /\ LET savedMessages == localStorage["chatMessages"]
         savedSettings == localStorage["chatSettings"]
         messagesThrow == savedMessages # <<>> /\ ~Decodable(savedMessages[1])
         settingsThrow == /\ ~messagesThrow
                          /\ savedSettings # <<>>
                          /\ ~Decodable(savedSettings[1])
         parsedMessages ==
           IF savedMessages # <<>> /\ ~messagesThrow
             THEN <<ParseMessages(savedMessages[1])>> ELSE <<>>
         parsedSettings ==
           IF savedSettings # <<>> /\ ~messagesThrow /\ ~settingsThrow
             THEN <<ParseSettings(savedSettings[1])>> ELSE <<>>
         persisted ==
           SetItem(SetItem(localStorage,
                           "chatMessages", StringifyMessages(chatMessages)),
                   "chatSettings", StringifySettings(chatSettings))
     IN IF messagesThrow \/ settingsThrow
          THEN /\ boot' = Crashed
               /\ uncaught' = uncaught \cup {"mount"}
               /\ localStorage' \in {localStorage, persisted}
          ELSE /\ boot' =
                    IF parsedMessages = <<>> /\ parsedSettings = <<>>
                      THEN Started
                      ELSE [phase |-> "rehydrating",
                            chatMessages |-> parsedMessages,
                            chatSettings |-> parsedSettings]
               /\ localStorage' = persisted
               /\ UNCHANGED uncaught
  /\ UNCHANGED <<dashVars, alertShown, clock, chatVars, asks, clearCalls,
                 diagramCalls, histVars, storedAtStart, reloads, wire,
                 backendStatus, uploadVars, rejected>>

\* the commit of the state updates the mount effect queued, followed by the
\* persisting effects of the values that changed
rehydrateCommit ==
  /\ boot.phase = "rehydrating"
  /\ LET ms == IF boot.chatMessages # <<>> THEN boot.chatMessages[1]
                                            ELSE chatMessages
         st == IF boot.chatSettings # <<>> THEN boot.chatSettings[1]
                                            ELSE chatSettings
         s1 == IF boot.chatMessages # <<>>
                 THEN SetItem(localStorage, "chatMessages", StringifyMessages(ms))
                 ELSE localStorage
         s2 == IF boot.chatSettings # <<>>
                 THEN SetItem(s1, "chatSettings", StringifySettings(st))
                 ELSE s1
     IN /\ chatMessages' = ms
        /\ chatSettings' = st
        /\ localStorage' = s2
  /\ boot' = Started
  /\ UNCHANGED <<hasBackendFiles, localFiles, loading, activeTab, backendMode,
                 queryHistory, lastRetrievedContext, alertShown, clock,
                 uncaught, chatVars, callVars, histVars, storedAtStart,
                 reloads, wire, healthVars, uploadVars, rejected>>

\* the page is loaded again: the process starts over what is stored, and the
\* continuations of the calls in flight are gone with the old page
Reload ==
  /\ reloads < MaxReloads
  /\ reloads' = reloads + 1
  /\ hasBackendFiles' = FALSE
  /\ localFiles' = <<>>
  /\ loading' = TRUE
  /\ activeTab' = "chat"
  /\ chatMessages' = <<>>
  /\ backendMode' = InitialBackendMode(localStorage)
  /\ chatSettings' = DefaultSettings
  /\ queryHistory' = <<>>
  /\ lastRetrievedContext' = <<>>
  /\ alertShown' = FALSE
  /\ uncaught' = {}
  /\ inputValue' = <<>>
  /\ isLoading' = FALSE
  /\ currentChunkDiagram' = <<>>
  /\ showChunkDiagramModal' = FALSE
  /\ asks' = <<>>
  /\ listCalls' = <<>>
  /\ clearCalls' = 0
  /\ diagramCalls' = <<>>
  /\ boot' = Constructed
  /\ storedAtStart' = localStorage
  /\ backendStatus' = "checking"
  /\ healthCalls' = 0
  /\ isDragging' = FALSE
  /\ isProcessing' = FALSE
  /\ error' = <<>>
  /\ uploadCalls' = <<>>
  /\ UNCHANGED <<localStorage, rejected, dropped, drops>>
  /\ UNCHANGED <<clock, histVars, wire>>

\* time passes
Tick ==
  /\ clock < MaxClock
  /\ clock' = clock + 1
  /\ UNCHANGED <<dashVars, localStorage, alertShown, uncaught, chatVars,
                 callVars, histVars, bootVars, wire,
                 healthVars, uploadVars, rejected>>

\* onChange of the chat input
SetInputValue(v) ==
  /\ ChatMounted
  /\ inputValue' = v
  /\ UNCHANGED <<dashVars, envVars, isLoading, currentChunkDiagram,
                 showChunkDiagramModal, callVars, histVars, bootVars, wire,
                 healthVars, uploadVars, rejected>>

\* variant: the mode is ignored and the primary operation always used
askAlwaysApi(mode, req) == askQuestion(req)

\* the branch on backendMode that picks the client operation
ask(mode, req) ==
  IF mode = "api" THEN askQuestion(req) ELSE askModelQuestion(req)

\* handleSendMessage, up to the await of the ask call. d is 1 when the clock
\* ticks between building the user message and building the bot message.
\* variant: the input is tested as typed, not trimmed
AcceptedUntrimmed == inputValue # <<>> /\ ~isLoading /\ hasBackendFiles

Accepted == Trim(inputValue) # <<>> /\ ~isLoading /\ hasBackendFiles

\* variant: only the user message is appended by the submit
NewAskUserOnly(d) ==
  LET userMessage == UserMessage(clock, Trim(inputValue))
      botMessage == BotMessage(clock + d)
      req == [query |-> userMessage.content,
              temperature |-> chatSettings.temperature,
              top_k |-> chatSettings.top_k,
              similarity_threshold |-> chatSettings.similarity_threshold]
  IN [newMessages |-> chatMessages \o <<userMessage>>,
      botMessageId |-> botMessage.id,
      query |-> userMessage.content,
      request |-> req,
      call |-> ask(backendMode, req),
      live |-> TRUE]

NewAsk(d) ==
  LET userMessage == UserMessage(clock, Trim(inputValue))
      botMessage == BotMessage(clock + d)
      newMessages == chatMessages \o <<userMessage, botMessage>>
      req == [query |-> userMessage.content,
              temperature |-> chatSettings.temperature,
              top_k |-> chatSettings.top_k,
              similarity_threshold |-> chatSettings.similarity_threshold]
  IN [newMessages |-> newMessages,
      botMessageId |-> botMessage.id,
      query |-> userMessage.content,
      request |-> req,
      call |-> ask(backendMode, req),
      live |-> TRUE]

handleSendMessage(d) ==
  /\ ChatMounted
  /\ IF ~Accepted
       THEN UNCHANGED vars
       ELSE /\ submits < MaxSubmits
            /\ clock + d <= MaxClock
            /\ LET a == NewAsk(d)
               IN /\ SetChatMessages(a.newMessages, localStorage)
                  /\ asks' = Append(asks, a)
            /\ inputValue' = <<>>
            /\ isLoading' = TRUE
            /\ clock' = clock + d
            /\ submits' = submits + 1
            /\ UNCHANGED <<hasBackendFiles, localFiles, loading, activeTab,
                           backendMode, chatSettings, queryHistory,
                           lastRetrievedContext, alertShown, uncaught,
                           currentChunkDiagram, showChunkDiagramModal,
                           listCalls, clearCalls, diagramCalls, nOk, nErr,
                           bootVars, wire,
                 healthVars, uploadVars, rejected>>

\* variant: every pending message is resolved, whatever its id
ResolvedAllPending(a, response) ==
  Map(LAMBDA msg :
        IF msg.isLoading = <<TRUE>>
          THEN [msg EXCEPT
                  !.content = IF response.answer = <<>> THEN NoResponseText
                                                        ELSE response.answer,
                  !.response = <<response>>,
                  !.isLoading = <<FALSE>>]
          ELSE msg,
      a.newMessages)

\* variant: an empty answer is shown as it is
ResolvedNoFallback(a, response) ==
  Map(LAMBDA msg :
        IF msg.id = a.botMessageId
          THEN [msg EXCEPT
                  !.content = response.answer,
                  !.response = <<response>>,
                  !.isLoading = <<FALSE>>]
          ELSE msg,
      a.newMessages)

\* variant: a failed placeholder keeps its loading flag
FailedStaysLoading(a, failure) ==
  Map(LAMBDA msg :
        IF msg.id = a.botMessageId
          THEN [msg EXCEPT
                  !.content = <<"Error: ">> \o ErrorMessage(failure)]
          ELSE msg,
      a.newMessages)

\* the rest of handleSendMessage, run when ask number i settles with o
Resolved(a, response) ==
  Map(LAMBDA msg :
        IF msg.id = a.botMessageId
          THEN [msg EXCEPT
                  !.content = IF response.answer = <<>> THEN NoResponseText
                                                        ELSE response.answer,
                  !.response = <<response>>,
                  !.isLoading = <<FALSE>>]
          ELSE msg,
      a.newMessages)

Failed(a, failure) ==
  Map(LAMBDA msg :
        IF msg.id = a.botMessageId
          THEN [msg EXCEPT
                  !.content = <<"Error: ">> \o ErrorMessage(failure),
                  !.isLoading = <<FALSE>>]
          ELSE msg,
      a.newMessages)

\* onQueryComplete as passed by the dashboard
onQueryComplete(query, response, timestamp) ==
  /\ queryHistory' = Append(queryHistory,
                            [query |-> query, response |-> response,
                             timestamp |-> timestamp])
  /\ lastRetrievedContext' = response.retrieved_context

\* variant: the guard is released in the success path only
releaseGuardOnSuccessOnly(a, o) == IF a.live /\ o.ok THEN FALSE ELSE isLoading

\* finally: setIsLoading(false), on the instance that issued the ask
releaseGuard(a, o) == IF a.live THEN FALSE ELSE isLoading

ResolveAsk(i, o) ==
  /\ i \in 1..Len(asks)
  /\ LET a == asks[i]
     IN /\ IF o.ok
             THEN /\ SetChatMessages(Resolved(a, o.response), localStorage)
                  /\ onQueryComplete(a.query, o.response, clock)
             ELSE /\ SetChatMessages(Failed(a, o.failure[1]), localStorage)
                  /\ UNCHANGED <<queryHistory, lastRetrievedContext>>
        /\ isLoading' = releaseGuard(a, o)
        /\ nOk' = IF o.ok THEN nOk + 1 ELSE nOk
        /\ nErr' = IF o.ok THEN nErr ELSE nErr + 1
  /\ asks' = RemoveAt(asks, i)
  /\ UNCHANGED <<hasBackendFiles, localFiles, loading, activeTab, backendMode,
                 chatSettings, alertShown, clock, uncaught, inputValue,
                 currentChunkDiagram, showChunkDiagramModal, listCalls,
                 clearCalls, diagramCalls, submits, bootVars, wire,
                 healthVars, uploadVars, rejected>>

\* ------------------------------------------------ chunk diagrams
\* String.prototype.includes on sequences of characters
Includes(s, t) ==
  \E i \in 0..(Len(s) - Len(t)) : SubSeq(s, i + 1, i + Len(t)) = t

\* a string | undefined used as a condition
Truthy(opt) == opt # <<>> /\ opt[1] # ""

FlowchartSkeleton(name) ==
  <<"graph TD\n    A[Start ", name,
    "] --> B{Process?}\n    B -- Yes --> C[Do Something]\n    C --> D[End]\n    B -- No --> D">>
ClassDiagramSkeleton ==
  <<"classDiagram\n    class MyClass {\n        + myMethod()\n        - myField\n    }\n    MyClass <|-- AnotherClass\n    MyClass : +memberVariable\n    MyClass : +memberFunction()">>
GenericStub ==
  <<"graph TD\n    A[Code Chunk] --> B[Content Analysis]\n    B --> C[No specific structure found]">>
ErrorDiagram(chunk) ==
  <<"graph TD\n    A[Error generating diagram for ",
    IF Truthy(chunk.function_name) THEN chunk.function_name[1] ELSE chunk.source,
    "]\n    A --> B[Check console for details]">>

\* variant: the class test comes before the function name test
generateMermaidLocallyClassFirst(chunk) ==
  IF \/ chunk.type = "class"
     \/ Includes(chunk.content, <<"c", "l", "a", "s", "s", " ">>)
     \/ Includes(chunk.content, <<"s", "t", "r", "u", "c", "t", " ">>)
    THEN ClassDiagramSkeleton
  ELSE IF Truthy(chunk.function_name)
    THEN FlowchartSkeleton(chunk.function_name[1])
  ELSE GenericStub

\* generateMermaidForChunk, the branch of every mode but 'model'
generateMermaidLocally(chunk) ==
  IF Truthy(chunk.function_name)
    THEN FlowchartSkeleton(chunk.function_name[1])
  ELSE IF \/ chunk.type = "class"
          \/ Includes(chunk.content, <<"c", "l", "a", "s", "s", " ">>)
          \/ Includes(chunk.content, <<"s", "t", "r", "u", "c", "t", " ">>)
    THEN ClassDiagramSkeleton
  ELSE GenericStub

\* handleViewChunkDiagram, up to the await of generateChunkDiagram in mode
\* 'model', and to its end otherwise
handleViewChunkDiagram(chunk) ==
  /\ ChatMounted
  /\ IF backendMode = "model"
       THEN /\ Len(diagramCalls) < MaxCalls
            /\ diagramCalls' =
                 Append(diagramCalls,
                        [chunk |-> chunk,
                         call |-> generateChunkDiagram([chunk |-> chunk]),
                         live |-> TRUE])
            /\ UNCHANGED <<currentChunkDiagram, showChunkDiagramModal>>
       ELSE /\ currentChunkDiagram' =
                 <<[chunk |-> chunk,
                    mermaidSyntax |-> generateMermaidLocally(chunk)]>>
            /\ showChunkDiagramModal' = TRUE
            /\ UNCHANGED diagramCalls
  /\ UNCHANGED <<dashVars, envVars, inputValue, isLoading, asks, listCalls,
                 clearCalls, histVars, bootVars, wire,
                 healthVars, uploadVars, rejected>>

\* variant: a failed diagram call leaves the modal as it is
handleViewChunkDiagramReturnDropsFailure(i, ok, answer) ==
  /\ i \in 1..Len(diagramCalls)
  /\ LET c == diagramCalls[i]
     IN IF c.live /\ ok
          THEN /\ currentChunkDiagram' =
                    <<[chunk |-> c.chunk, mermaidSyntax |-> answer]>>
               /\ showChunkDiagramModal' = TRUE
          ELSE UNCHANGED <<currentChunkDiagram, showChunkDiagramModal>>
  /\ diagramCalls' = RemoveAt(diagramCalls, i)
  /\ UNCHANGED <<dashVars, envVars, inputValue, isLoading, asks, listCalls,
                 clearCalls, histVars, bootVars, wire,
                 healthVars, uploadVars, rejected>>

\* the rest of handleViewChunkDiagram, run when diagram call i settles
handleViewChunkDiagramReturn(i, ok, answer) ==
  /\ i \in 1..Len(diagramCalls)
  /\ LET c == diagramCalls[i]
         mermaidSyntax == IF ok THEN answer ELSE ErrorDiagram(c.chunk)
     IN IF c.live
          THEN /\ currentChunkDiagram' =
                    <<[chunk |-> c.chunk, mermaidSyntax |-> mermaidSyntax]>>
               /\ showChunkDiagramModal' = TRUE
          ELSE UNCHANGED <<currentChunkDiagram, showChunkDiagramModal>>
  /\ diagramCalls' = RemoveAt(diagramCalls, i)
  /\ UNCHANGED <<dashVars, envVars, inputValue, isLoading, asks, listCalls,
                 clearCalls, histVars, bootVars, wire,
                 healthVars, uploadVars, rejected>>

\* ------------------------------------------------ FileUpload
ToLowerCase(ch) ==
  LET UpperCase ==
        <<"A", "B", "C", "D", "E", "F", "G", "H", "I", "J", "K", "L", "M",
          "N", "O", "P", "Q", "R", "S", "T", "U", "V", "W", "X", "Y", "Z">>
      LowerCase ==
        <<"a", "b", "c", "d", "e", "f", "g", "h", "i", "j", "k", "l", "m",
          "n", "o", "p", "q", "r", "s", "t", "u", "v", "w", "x", "y", "z">>
  IN IF \E i \in 1..Len(UpperCase) : UpperCase[i] = ch
       THEN LowerCase[CHOOSE i \in 1..Len(UpperCase) : UpperCase[i] = ch]
       ELSE ch
EndsWith(s, t) ==
  Len(s) >= Len(t) /\ SubSeq(s, Len(s) - Len(t) + 1, Len(s)) = t

\* the alternatives of the pattern /\.(c|cpp|...|zip)$/i
Extensions ==
  { <<"c">>, <<"c", "p", "p">>, <<"h">>, <<"h", "p", "p">>, <<"p", "y">>,
    <<"j", "a", "v", "a">>, <<"j", "s">>, <<"t", "s">>, <<"t", "s", "x">>,
    <<"c", "s">>, <<"g", "o">>, <<"p", "h", "p">>, <<"r", "b">>,
    <<"s", "w", "i", "f", "t">>, <<"z", "i", "p">> }

\* variant: the pattern without the flag i
allowedExtensionsCaseSensitive(name) ==
  \E e \in Extensions : EndsWith(name, <<".">> \o e)

\* allowedExtensions.test(name)
allowedExtensions(name) ==
  \E e \in Extensions : EndsWith(Map(ToLowerCase, name), <<".">> \o e)

UnsupportedMessage ==
  <<"Please upload supported code files or a zip archive.">>

handleDragOver ==
  /\ ~isProcessing
  /\ isDragging' = TRUE
  /\ UNCHANGED <<isProcessing, error, uploadCalls, dropped, drops>>
  /\ UNCHANGED <<dashVars, envVars, chatVars, callVars, histVars, bootVars,
                 wire, healthVars, rejected>>

handleDragLeave ==
  /\ ~isProcessing
  /\ isDragging' = FALSE
  /\ UNCHANGED <<isProcessing, error, uploadCalls, dropped, drops>>
  /\ UNCHANGED <<dashVars, envVars, chatVars, callVars, histVars, bootVars,
                 wire, healthVars, rejected>>

\* handleDrop, up to the await of onFilesUploaded or, without valid files,
\* to its end. The drop zone takes no pointer events while isProcessing.
handleDrop(files) ==
  /\ ~isProcessing
  /\ drops < MaxDrops
  /\ dropped' = files
  /\ drops' = drops + 1
  /\ isDragging' = FALSE
  /\ LET validFiles == SelectSeq(files, allowedExtensions)
     IN IF Len(validFiles) > 0
          THEN /\ isProcessing' = TRUE
               /\ error' = <<>>
               /\ uploadCalls' = Append(uploadCalls, [files |-> validFiles])
          ELSE /\ isProcessing' = FALSE
               /\ error' = UnsupportedMessage
               /\ UNCHANGED uploadCalls
  /\ UNCHANGED <<dashVars, envVars, chatVars, callVars, histVars, bootVars,
                 wire, healthVars, rejected>>

\* handleFileSelect, up to the await of onFilesUploaded or, without valid
\* files, to its end. The file input is not rendered while isProcessing.
handleFileSelect(files) ==
  /\ ~isProcessing
  /\ drops < MaxDrops
  /\ dropped' = files
  /\ drops' = drops + 1
  /\ LET validFiles == SelectSeq(files, allowedExtensions)
     IN IF Len(validFiles) > 0
          THEN /\ isProcessing' = TRUE
               /\ error' = <<>>
               /\ uploadCalls' = Append(uploadCalls, [files |-> validFiles])
          ELSE /\ error' = UnsupportedMessage
               /\ UNCHANGED <<isProcessing, uploadCalls>>
  /\ UNCHANGED isDragging
  /\ UNCHANGED <<dashVars, envVars, chatVars, callVars, histVars, bootVars,
                 wire, healthVars, rejected>>

\* the rest of handleDrop and of handleFileSelect, run when call i of
\* onFilesUploaded settles
onFilesUploadedReturn(i, outcome) ==
  /\ i \in 1..Len(uploadCalls)
  /\ uploadCalls' = RemoveAt(uploadCalls, i)
  /\ error' = CASE outcome.kind = "resolved" -> error
                [] outcome.kind = "Error" -> outcome.message
                [] OTHER -> <<"Upload failed">>
  /\ isProcessing' = FALSE
  /\ UNCHANGED <<isDragging, dropped, drops>>
  /\ UNCHANGED <<dashVars, envVars, chatVars, callVars, histVars, bootVars,
                 wire, healthVars, rejected>>

\* ------------------------------------------------ EnhancedDashboard
\* JSON.parse of the stored file list
ParseFiles(text) == text.value

\* variant: a failed listing empties the list whatever the snapshot holds
checkLocalFilesFallbackEmpty(ok, fs, saved) == IF ok THEN fs ELSE <<>>

\* the list checkLocalFiles sets: the server's, else the stored snapshot's,
\* else the one it has
checkLocalFilesList(ok, fs, saved) ==
  IF ok THEN fs
  ELSE IF saved # <<>> THEN ParseFiles(saved[1])
  ELSE localFiles

\* checkLocalFiles, run when listCodebaseFiles settles; with fromUpload the
\* continuation of handleBackendFilesUploaded follows in the same turn
checkLocalFilesReturn(i, ok, fs) ==
  /\ i \in 1..Len(listCalls)
  /\ listCalls' = RemoveAt(listCalls, i)
  /\ LET c == listCalls[i]
         saved == localStorage["uploadedFiles"]
         throws == ~ok /\ saved # <<>> /\ ~Decodable(saved[1])
         files == checkLocalFilesList(ok, fs, saved)
         has == IF ok \/ saved # <<>> THEN Len(files) > 0
                ELSE hasBackendFiles
         hasAfter == IF c.fromUpload THEN TRUE ELSE has
         mirrored ==
           IF ok THEN SetItem(localStorage, "uploadedFiles", StringifyFiles(fs))
                 ELSE localStorage
     IN IF boot.phase = "crashed"
          \* the tree is unmounted: the state setters do nothing
          THEN /\ localStorage' = mirrored
               /\ uncaught' = IF throws THEN uncaught \cup {"checkLocalFiles"}
                                        ELSE uncaught
               /\ UNCHANGED <<hasBackendFiles, localFiles, loading, chatVars,
                              asks, diagramCalls>>
          ELSE IF throws
          \* JSON.parse throws in the catch block: finally runs, the promise
          \* rejects, and an awaiting handleBackendFilesUploaded rejects too
          THEN /\ loading' = FALSE
               /\ uncaught' = uncaught \cup {"checkLocalFiles"}
               /\ Rerender(FALSE, hasBackendFiles, activeTab, asks)
               /\ UNCHANGED <<hasBackendFiles, localFiles, localStorage>>
          ELSE /\ localFiles' = files
               /\ hasBackendFiles' = hasAfter
               /\ localStorage' = mirrored
               /\ loading' = FALSE
               /\ Rerender(FALSE, hasAfter, activeTab, asks)
               /\ UNCHANGED uncaught
  /\ UNCHANGED <<activeTab, chatMessages, backendMode, chatSettings,
                 queryHistory, lastRetrievedContext, alertShown, clock,
                 clearCalls, histVars, bootVars, wire,
                 healthVars, uploadVars, rejected>>

\* the Refresh Status button, rendered past the loading screen: the part of
\* checkBackendStatus up to the await of the health check
checkBackendStatus ==
  /\ boot.phase # "crashed"
  /\ ~loading
  /\ healthCalls <= MaxCalls
  /\ healthCalls' = healthCalls + 1
  /\ UNCHANGED <<backendStatus, dashVars, envVars, chatVars, callVars,
                 histVars, bootVars, wire, uploadVars, rejected>>

\* the rest of checkBackendStatus, run when a health check settles
checkBackendStatusReturn(ok) ==
  /\ healthCalls > 0
  /\ healthCalls' = healthCalls - 1
  /\ backendStatus' =
       IF boot.phase = "crashed" THEN backendStatus
       ELSE IF ok THEN "connected" ELSE "disconnected"
  /\ UNCHANGED <<dashVars, envVars, chatVars, callVars, histVars, bootVars,
                 wire, uploadVars, rejected>>

\* the upload widget is shown while no files are loaded and on the files tab
UploadWidgetShown == ~loading /\ (~hasBackendFiles \/ activeTab = "files")

\* handleBackendFilesUploaded, up to the await of checkLocalFiles
handleBackendFilesUploaded ==
  /\ UploadWidgetShown
  /\ Len(listCalls) < MaxCalls
  /\ listCalls' = Append(listCalls, [fromUpload |-> TRUE])
  /\ UNCHANGED <<dashVars, envVars, chatVars, asks, clearCalls, diagramCalls,
                 histVars, bootVars, wire,
                 healthVars, uploadVars, rejected>>

\* handleClearBackendFiles, up to the await of clearCodebase
handleClearBackendFiles ==
  /\ ~loading
  /\ hasBackendFiles \/ UploadWidgetShown
  /\ clearCalls < MaxCalls
  /\ clearCalls' = clearCalls + 1
  /\ alertShown' = FALSE
  /\ UNCHANGED <<dashVars, localStorage, clock, uncaught, chatVars, asks,
                 listCalls, diagramCalls, histVars, bootVars, wire,
                 healthVars, uploadVars, rejected>>

\* variant: a successful clear leaves the stored file list in place
handleClearBackendFilesReturnKeepsMirror(ok) ==
  /\ clearCalls > 0
  /\ clearCalls' = clearCalls - 1
  /\ IF ok
       THEN /\ hasBackendFiles' = FALSE
            /\ localFiles' = <<>>
            /\ SetChatMessages(<<>>, localStorage)
            /\ Rerender(loading, FALSE, activeTab, asks)
            /\ UNCHANGED alertShown
       ELSE /\ alertShown' = TRUE
            /\ UNCHANGED <<hasBackendFiles, localFiles, chatMessages,
                           localStorage, chatVars, asks, diagramCalls>>
  /\ UNCHANGED <<loading, activeTab, backendMode, chatSettings, queryHistory,
                 lastRetrievedContext, clock, uncaught, listCalls, histVars,
                 bootVars, wire,
                 healthVars, uploadVars, rejected>>

\* the rest of handleClearBackendFiles, run when clearCodebase settles
handleClearBackendFilesReturn(ok) ==
  /\ clearCalls > 0
  /\ clearCalls' = clearCalls - 1
  /\ IF ok
       THEN /\ hasBackendFiles' = FALSE
            /\ localFiles' = <<>>
            /\ SetChatMessages(<<>>, RemoveItem(localStorage, "uploadedFiles"))
            /\ Rerender(loading, FALSE, activeTab, asks)
            /\ UNCHANGED alertShown
       ELSE /\ alertShown' = TRUE
            /\ UNCHANGED <<hasBackendFiles, localFiles, chatMessages,
                           localStorage, chatVars, asks, diagramCalls>>
  /\ UNCHANGED <<loading, activeTab, backendMode, chatSettings, queryHistory,
                 lastRetrievedContext, clock, uncaught, listCalls, histVars,
                 bootVars, wire,
                 healthVars, uploadVars, rejected>>

\* a click on a tab of the tab bar
setActiveTab(t) ==
  /\ ~loading /\ hasBackendFiles
  /\ activeTab' = t
  /\ Rerender(loading, hasBackendFiles, t, asks)
  /\ UNCHANGED <<hasBackendFiles, localFiles, loading, chatMessages,
                 backendMode, chatSettings, queryHistory,
                 lastRetrievedContext, envVars, listCalls, clearCalls,
                 histVars, bootVars, wire,
                 healthVars, uploadVars, rejected>>

\* a click on one of the two backend mode buttons
setBackendMode(m) ==
  /\ ChatMounted
  /\ backendMode' = m
  /\ localStorage' = SetItem(localStorage, "backendMode", m)
  /\ UNCHANGED <<hasBackendFiles, localFiles, loading, activeTab,
                 chatMessages, chatSettings, queryHistory,
                 lastRetrievedContext, alertShown, clock, uncaught, chatVars,
                 callVars, histVars, bootVars, wire,
                 healthVars, uploadVars, rejected>>

\* handleUpdateChatSettings followed by the persisting effect
handleUpdateChatSettings(newSettings) ==
  /\ ChatMounted
  /\ chatSettings' = newSettings
  /\ localStorage' =
       SetItem(localStorage, "chatSettings", StringifySettings(newSettings))
  /\ UNCHANGED <<hasBackendFiles, localFiles, loading, activeTab,
                 chatMessages, backendMode, queryHistory,
                 lastRetrievedContext, alertShown, clock, uncaught, chatVars,
                 callVars, histVars, bootVars, wire,
                 healthVars, uploadVars, rejected>>

\* ------------------------------------------------ client operations
\* a call of a client operation under the mode of the session; the request
\* it hands to fetch is recorded
Issue(op, call) ==
  /\ Len(wire) < MaxWire
  /\ wire' = Append(wire, [op |-> op, mode |-> backendMode, call |-> call])
  /\ UNCHANGED <<dashVars, envVars, chatVars, callVars, histVars, bootVars,
                 healthVars, uploadVars, rejected>>

callCheckHealth == Issue("checkHealth", checkHealth)
callListCodebaseFiles == Issue("listCodebaseFiles", listCodebaseFiles)
callUploadCodeFiles == Issue("uploadCodeFiles", uploadCodeFiles("a.c"))
callClearCodebase == Issue("clearCodebase", clearCodebase)
callGenerateModuleDiagram ==
  Issue("generateModuleDiagram", generateModuleDiagram([files |-> localFiles]))
callGenerateChunkDiagram ==
  Issue("generateChunkDiagram", generateChunkDiagram([chunk |-> "chunk"]))
callAsk ==
  Issue("ask", ask(backendMode,
                   [query |-> <<"q">>,
                    temperature |-> chatSettings.temperature,
                    top_k |-> chatSettings.top_k,
                    similarity_threshold |-> chatSettings.similarity_threshold]))

\* the request wire[k] is answered with the failure f: the operation that
\* made it throws, and sends nothing more
requestFails(k, f) ==
  /\ k \in 1..Len(wire)
  /\ \A j \in 1..Len(rejected) : rejected[j].request # k
  /\ rejected' = Append(rejected,
                        [request |-> k, op |-> wire[k].op, failure |-> f,
                         message |->
                           IF wire[k].op = "uploadCodeFiles"
                             THEN UploadErrorMessage(f)
                             ELSE ErrorMessage(f)])
  /\ UNCHANGED <<dashVars, envVars, chatVars, callVars, histVars, bootVars,
                 wire, healthVars, uploadVars>>

\* ------------------------------------------------ specification
Submit == \E d \in 0..1 : handleSendMessage(d)
Settle == \E i \in 1..MaxSubmits, o \in Outcomes : ResolveAsk(i, o)
TypeInput == \E v \in Inputs : SetInputValue(v)
ListReturn ==
  \E i \in 1..MaxCalls, ok \in BOOLEAN, fs \in FileLists :
    checkLocalFilesReturn(i, ok, fs)
ClearReturn == \E ok \in BOOLEAN : handleClearBackendFilesReturn(ok)
SwitchTab == \E t \in NavTabs : setActiveTab(t)
SwitchMode == \E m \in Modes : setBackendMode(m)
EditSettings == \E s \in SettingsChoices : handleUpdateChatSettings(s)

\* startup listing, navigation and the chat itself
ChatCore ==
  \/ Tick
  \/ TypeInput
  \/ Submit
  \/ Settle
  \/ ListReturn
  \/ SwitchTab

\* the chat session: the core, clearing the codebase, and edits of mode and
\* settings
Next ==
  \/ ChatCore
  \/ handleClearBackendFiles
  \/ ClearReturn
  \/ SwitchMode
  \/ EditSettings

Spec == Init /\ [][Next]_vars

\* the chat session with uploads of further files
FilesNext == Next \/ handleBackendFilesUploaded
SpecFiles == Init /\ [][FilesNext]_vars

\* the chat and clears of the codebase, under the initial mode and settings
ClearNext ==
  \/ ChatCore
  \/ handleClearBackendFiles
  \/ ClearReturn
SpecClear == Init /\ [][ClearNext]_vars

\* the chat and edits of mode and settings, with a codebase that stays loaded
SettleAnswerOrHttpError ==
  \E i \in 1..MaxSubmits, o \in Outcomes :
    /\ o.ok => o.response.answer # <<>>
    /\ ~o.ok => o.failure[1].kind = "http"
    /\ ResolveAsk(i, o)
EditsNext ==
  \/ Tick
  \/ TypeInput
  \/ Submit
  \/ SettleAnswerOrHttpError
  \/ ListReturn
  \/ SwitchTab
  \/ SwitchMode
  \/ EditSettings
SpecEdits == Init /\ [][EditsNext]_vars

\* startup over any storage, up to the return of the first listing
BootNext ==
  \/ mountEffects
  \/ rehydrateCommit
  \/ ListReturn
SpecBoot == InitStored /\ [][BootNext]_vars

\* startup over any storage, with the health checks of the mount and of
\* the Refresh Status button
HealthReturn == \E ok \in BOOLEAN : checkBackendStatusReturn(ok)
StartupNext ==
  \/ mountEffects
  \/ rehydrateCommit
  \/ ListReturn
  \/ HealthReturn
  \/ checkBackendStatus
SpecStartup == InitStored /\ [][StartupNext]_vars

\* the upload widget: drags, drops, selections and the upload callback
Drop == \E files \in DroppedFiles : handleDrop(files)
FileSelect == \E files \in DroppedFiles : handleFileSelect(files)
UploadReturn ==
  \E i \in 1..MaxCalls, outcome \in UploadOutcomes :
    onFilesUploadedReturn(i, outcome)
FileUploadNext ==
  \/ handleDragOver
  \/ handleDragLeave
  \/ Drop
  \/ FileSelect
  \/ UploadReturn
SpecFileUpload == Init /\ [][FileUploadNext]_vars

\* the chat session with a restart of the page; the updates queued by the
\* mount are committed before the user acts
ReloadNext ==
  \/ mountEffects
  \/ rehydrateCommit
  \/ Reload
  \/ ListReturn
  \/ Settle
  \/ boot.phase = "started" /\ TypeInput
  \/ boot.phase = "started" /\ Submit
  \/ boot.phase = "started" /\ EditSettings
SpecReload == Init /\ [][ReloadNext]_vars

\* the client operations called in any order while the mode is switched
ApiNext ==
  \/ ListReturn
  \/ SwitchMode
  \/ callCheckHealth
  \/ callListCodebaseFiles
  \/ callUploadCodeFiles
  \/ callClearCodebase
  \/ callGenerateModuleDiagram
  \/ callGenerateChunkDiagram
  \/ callAsk
SpecApi == Init /\ [][ApiNext]_vars

\* the client operations called in any order, and their requests failing
RequestFails == \E k \in 1..MaxWire, f \in Failures : requestFails(k, f)
ApiFailNext ==
  \/ ListReturn
  \/ SwitchMode
  \/ callCheckHealth
  \/ callListCodebaseFiles
  \/ callUploadCodeFiles
  \/ callClearCodebase
  \/ callGenerateModuleDiagram
  \/ callGenerateChunkDiagram
  \/ callAsk
  \/ RequestFails
SpecApiFail == Init /\ [][ApiFailNext]_vars

\* chunk diagrams viewed while mode and tab are switched
ViewDiagram == \E chunk \in Chunks : handleViewChunkDiagram(chunk)
ViewDiagramReturn ==
  \E i \in 1..MaxCalls, ok \in BOOLEAN, answer \in DiagramAnswers :
    handleViewChunkDiagramReturn(i, ok, answer)
DiagramNext ==
  \/ ListReturn
  \/ SwitchMode
  \/ SwitchTab
  \/ ViewDiagram
  \/ ViewDiagramReturn
SpecDiagram == Init /\ [][DiagramNext]_vars

\* the codebase: listings, uploads of further files, clears, tab switches
UploadNext ==
  \/ ListReturn
  \/ handleBackendFilesUploaded
  \/ handleClearBackendFiles
  \/ ClearReturn
  \/ SwitchTab
  \/ SwitchMode
  \/ TypeInput
SpecUpload == Init /\ [][UploadNext]_vars

\* the chat with inputs of spaces only, and clears of the codebase
TypeBlankOrText == \E v \in Inputs \cup BlankInputs : SetInputValue(v)
RejectNext ==
  \/ TypeBlankOrText
  \/ Submit
  \/ Settle
  \/ ListReturn
  \/ handleClearBackendFiles
  \/ ClearReturn
SpecReject == Init /\ [][RejectNext]_vars

\* the chat session in which a submit waits for the previous exchange to
\* settle, and every ask eventually settles
SubmitInTurn == asks = <<>> /\ Submit
SeqNext ==
  \/ Tick
  \/ TypeInput
  \/ SubmitInTurn
  \/ Settle
  \/ ListReturn
  \/ SwitchTab
  \/ handleClearBackendFiles
  \/ ClearReturn
SpecSeq == Init /\ [][SeqNext]_vars /\ WF_vars(Settle)

\* ------------------------------------------------ steps and state shapes
\* a step in which handleSendMessage accepted a submit
SubmitStep == submits' = submits + 1
\* a step in which the continuation of an ask ran
SettleStep == nOk' + nErr' = nOk + nErr + 1
SettleOkStep == nOk' = nOk + 1
SettleErrStep == nErr' = nErr + 1

IsPending(m) == m.isLoading = <<TRUE>>
HasPending == \E k \in 1..Len(chatMessages) : IsPending(chatMessages[k])

\* what went over the wire for an ask, and what the handler passed down
Sent(a) == [request |-> a.request, call |-> a.call]
SentAll(as) == [k \in 1..Len(as) |-> Sent(as[k])]

\* ------------------------------------------------ claims

\* C1: when every submit waits for the previous exchange to settle, each
\* accepted submit makes the transcript exactly 2 longer, and (every ask
\* eventually settling) a transcript with a pending assistant message is
\* always followed by one with none.
C1_InTurnGrowsByTwoAndSettles ==
  /\ [][SubmitStep => Len(chatMessages') = Len(chatMessages) + 2]_vars
  /\ (HasPending ~> ~HasPending)

C1_Witness ==
  /\ submits = 2
  /\ asks = <<>>
  /\ Len(chatMessages) = 4
  /\ ~HasPending
  /\ nErr = 1

\* C2: while an ask is outstanding no submit is accepted, also after the
\* chat component was unmounted and mounted again by tab navigation.
C2_NoSubmitWhileOutstanding ==
  [][asks # <<>> => ~SubmitStep]_vars

\* C3: at most one ask is outstanding at any time.
C3_AtMostOneOutstanding == Len(asks) <= 1

\* C4: the pair {user message, pending placeholder} is in the transcript in
\* the step that issues the ask; every accepted exchange is either still
\* outstanding or was resolved exactly once; and a resolution changes, in the
\* transcript the exchange was built on, only messages whose id is the
\* placeholder's id, and leaves none of those pending.
C4_AppendBeforeAskResolveOnceById ==
  /\ [](nOk + nErr + Len(asks) = submits)
  /\ [][/\ SubmitStep =>
             /\ Len(asks') = Len(asks) + 1
             /\ LET a == asks'[Len(asks')]
                    n == Len(chatMessages')
                IN /\ n >= 2
                   /\ a.newMessages = chatMessages'
                   /\ chatMessages'[n].id = a.botMessageId
                   /\ IsPending(chatMessages'[n])
                   /\ chatMessages'[n - 1].type = "user"
                   /\ chatMessages'[n - 1].content = a.query
        /\ SettleStep =>
             \E i \in 1..Len(asks) :
               LET a == asks[i]
               IN /\ asks' = RemoveAt(asks, i)
                  /\ Len(chatMessages') = Len(a.newMessages)
                  /\ \A k \in 1..Len(a.newMessages) :
                       IF a.newMessages[k].id = a.botMessageId
                         THEN chatMessages'[k].isLoading = <<FALSE>>
                         ELSE chatMessages'[k] = a.newMessages[k]
       ]_vars

C4_Witness ==
  /\ nOk + nErr = 2
  /\ Len(chatMessages) = 4
  /\ backendMode = "model"
  /\ chatSettings # DefaultSettings
  /\ activeTab = "files"

\* C5: a resolution keeps the length of the transcript as it is when the
\* resolution arrives and changes in it only the message with the
\* placeholder's id; a transcript emptied by a clear stays empty.
C5_ResolutionTouchesOnlyPlaceholder ==
  [][SettleStep =>
       \E i \in 1..Len(asks) :
         /\ asks' = RemoveAt(asks, i)
         /\ Len(chatMessages') = Len(chatMessages)
         /\ \A k \in 1..Len(chatMessages) :
              chatMessages[k].id # asks[i].botMessageId
                => chatMessages'[k] = chatMessages[k]
    ]_vars

\* C6: an accepted submit replaces the transcript once, by itself extended
\* with a user message and a pending assistant message, and in every
\* reachable transcript each user message is directly followed by an
\* assistant message.
UserFollowedByBot ==
  \A k \in 1..Len(chatMessages) :
    chatMessages[k].type = "user"
      => k < Len(chatMessages) /\ chatMessages[k + 1].type = "bot"

C6_PairAppendedAtOnce ==
  /\ []UserFollowedByBot
  /\ [][SubmitStep =>
          /\ Len(chatMessages') = Len(chatMessages) + 2
          /\ SubSeq(chatMessages', 1, Len(chatMessages)) = chatMessages
          /\ chatMessages'[Len(chatMessages) + 1].type = "user"
          /\ chatMessages'[Len(chatMessages) + 2].type = "bot"
          /\ IsPending(chatMessages'[Len(chatMessages) + 2])
       ]_vars

C6_Witness ==
  /\ Len(chatMessages) = 4
  /\ Len(asks) = 1
  /\ nOk = 1
  /\ chatMessages[1].type = "user"
  /\ chatMessages[3].type = "user"

\* C7: when an ask succeeds with response r, the placeholder keeps id, type
\* and position (the last of the transcript the exchange was built on) and
\* has isLoading false, response r and as content r's answer, or the text
\* 'No response received' when the answer is empty.
C7_SuccessFillsPlaceholder ==
  [][SettleOkStep =>
       \E i \in 1..Len(asks), r \in Responses :
         LET a == asks[i]
             p == Len(a.newMessages)
         IN /\ asks' = RemoveAt(asks, i)
            /\ queryHistory'[Len(queryHistory')].response = r
            /\ Len(chatMessages') >= p
            /\ chatMessages'[p] =
                 [id |-> a.botMessageId,
                  type |-> "bot",
                  content |-> IF r.answer = <<>> THEN <<"No response received">>
                                                 ELSE r.answer,
                  timestamp |-> a.newMessages[p].timestamp,
                  response |-> <<r>>,
                  isLoading |-> <<FALSE>>]
    ]_vars

C7_Witness ==
  /\ nOk = 2
  /\ Len(chatMessages) = 4
  /\ chatMessages[2].content = <<"No response received">>
  /\ chatMessages[4].content = <<"ans">>
  /\ chatMessages[4].response # <<>>

\* C8: when an ask fails, the placeholder has the error summary as content,
\* isLoading false and no response; nothing is thrown out of the handler; and
\* the instance that issued the ask, if still mounted, has its guard released.
C8_FailureIsShownAndGuardReleased ==
  [][SettleErrStep =>
       \E i \in 1..Len(asks), f \in Failures :
         LET a == asks[i]
             p == Len(a.newMessages)
         IN /\ asks' = RemoveAt(asks, i)
            /\ Len(chatMessages') >= p
            /\ chatMessages'[p] =
                 [id |-> a.botMessageId,
                  type |-> "bot",
                  content |-> IF f.kind = "http"
                                THEN <<"Error: ", "HTTP ", f.status, ": ">> \o f.body
                                ELSE <<"Error: ", "Failed to fetch">>,
                  timestamp |-> a.newMessages[p].timestamp,
                  response |-> <<>>,
                  isLoading |-> <<FALSE>>]
            /\ uncaught' = uncaught
            /\ a.live => ~isLoading'
    ]_vars

\* a submit accepted after a failed exchange, by the same mounted instance
C8_Witness ==
  /\ nErr = 1
  /\ nOk = 0
  /\ submits = 2
  /\ Len(asks) = 1
  /\ asks[1].live
  /\ Len(chatMessages) = 4
  /\ chatMessages[2].content = <<"Error: ", "HTTP ", "500", ": ", "boom">>

\* C9: every settled exchange, resolved or failed, has notified the observer
\* exactly once.
C9_EverySettledExchangeNotified == Len(queryHistory) = nOk + nErr

\* C10: the ask is sent with the settings and to the backend of the mode in
\* effect when the submit is accepted; nothing changes an ask once sent; and
\* a change of mode or of settings changes no message.
C10_ModeAndSettingsOfSubmit ==
  [][/\ SubmitStep =>
          LET a == asks'[Len(asks')]
          IN /\ a.request.temperature = chatSettings.temperature
             /\ a.request.top_k = chatSettings.top_k
             /\ a.request.similarity_threshold = chatSettings.similarity_threshold
             /\ a.call.url[1] = IF backendMode = "api"
                                  THEN "http://localhost:8000"
                                  ELSE "http://localhost:8001"
             /\ SentAll(SubSeq(asks', 1, Len(asks))) = SentAll(asks)
     /\ ~SubmitStep =>
          \/ SentAll(asks') = SentAll(asks)
          \/ \E i \in 1..Len(asks) : SentAll(asks') = SentAll(RemoveAt(asks, i))
     /\ (backendMode' # backendMode \/ chatSettings' # chatSettings) =>
          /\ chatMessages' = chatMessages
          /\ SentAll(asks') = SentAll(asks)
    ]_vars

\* an ask in flight sent under a mode and settings that have changed since
C10_Witness ==
  /\ Len(asks) = 1
  /\ asks[1].call.url[1] = "http://localhost:8001"
  /\ backendMode = "api"
  /\ asks[1].request.temperature # chatSettings.temperature
  /\ \E k \in 1..Len(chatMessages) : chatMessages[k].isLoading = <<FALSE>>

\* C11: in a state where the input is empty or only spaces, or no codebase is
\* loaded, a run of handleSendMessage changes nothing: no step from such a
\* state is a submit, none lengthens the transcript and none issues an ask.
C11_BlankOrNoCodebaseSubmitIsSilent ==
  [][(Trim(inputValue) = <<>> \/ ~hasBackendFiles) =>
       /\ (\E d \in 0..1 : handleSendMessage(d)) => UNCHANGED vars
       /\ ~SubmitStep
       /\ Len(asks') <= Len(asks)
    ]_vars

\* an input of spaces in front of a mounted chat whose guard is free, after
\* an exchange that was accepted and has settled
C11_Witness ==
  /\ ChatMounted
  /\ inputValue = <<" ">>
  /\ ~isLoading
  /\ submits = 1
  /\ asks = <<>>
  /\ Len(chatMessages) = 2

\* C12: when clearCodebase succeeds the transcript and the file list are
\* empty, hasBackendFiles is false and the stored file list is removed; when
\* it fails, transcript, file list, flag and storage are as before the call
\* and the alert is shown. Every return of a clear call is one of the two.
ClearReturnStep == clearCalls' = clearCalls - 1
Cleared ==
  /\ chatMessages' = <<>>
  /\ localFiles' = <<>>
  /\ ~hasBackendFiles'
  /\ localStorage'["uploadedFiles"] = <<>>
  /\ localStorage'["chatMessages"] = <<StringifyMessages(<<>>)>>
  /\ alertShown' = alertShown
ClearRefused ==
  /\ UNCHANGED <<chatMessages, localFiles, hasBackendFiles, localStorage>>
  /\ alertShown'

C12_ClearAllOrNothing ==
  [][/\ handleClearBackendFilesReturn(TRUE) => Cleared
     /\ handleClearBackendFilesReturn(FALSE) => ClearRefused
     /\ ClearReturnStep => Cleared \/ ClearRefused
    ]_vars

\* a successful clear of a session that had files and a settled exchange
C12_Witness ==
  /\ nOk = 1
  /\ clearCalls = 0
  /\ ~loading
  /\ ~hasBackendFiles
  /\ localFiles = <<>>
  /\ chatMessages = <<>>
  /\ localStorage["uploadedFiles"] = <<>>
  /\ ~alertShown

\* C13: startup never fails, and when the stored transcript (the stored
\* settings) is missing or undecodable the session that has started holds the
\* empty transcript (the default settings).
Undecoded(entry) == entry = <<>> \/ ~Decodable(entry[1])
C13_StartupNeverFails ==
  /\ boot.phase # "crashed"
  /\ "mount" \notin uncaught
  /\ boot.phase = "started" /\ submits = 0 =>
       /\ Undecoded(storedAtStart["chatMessages"]) => chatMessages = <<>>
       /\ Undecoded(storedAtStart["chatSettings"]) =>
            chatSettings = [temperature |-> 2, top_k |-> 5,
                            similarity_threshold |-> 7]

\* C14: when a page whose effects have run is restarted, storage holds the
\* serialized transcript of that page; when the startup has settled, the transcript is that one
\* again (same length and order, same id, type, content, response and
\* timestamp value for every message), and storage holds it in full.
ReloadStep == reloads' = reloads + 1
StartupSettles == boot.phase # "started" /\ boot'.phase = "started"
C14_PersistReloadRoundTrip ==
  [][/\ ReloadStep /\ boot.phase # "constructed" =>
          /\ storedAtStart'["chatMessages"] = <<StringifyMessages(chatMessages)>>
          /\ chatMessages' = <<>>
     /\ StartupSettles /\ storedAtStart["chatMessages"] # <<>> =>
          /\ StringifyMessages(chatMessages') = storedAtStart["chatMessages"][1]
          /\ Len(chatMessages') = Len(storedAtStart["chatMessages"][1].value)
          /\ localStorage'["chatMessages"] = storedAtStart["chatMessages"]
    ]_vars

\* a restarted page that holds again two exchanges, one with a response and
\* one made at a later time than the other
C14_Witness ==
  /\ reloads = 1
  /\ boot.phase = "started"
  /\ Len(chatMessages) = 4
  /\ chatMessages[2].response # <<>>
  /\ chatMessages[4].timestamp > chatMessages[1].timestamp
  /\ submits = 2
  /\ localStorage["chatMessages"] = storedAtStart["chatMessages"]

\* C15: once the effects of the mount have run, storage holds at every
\* moment between two events the full serialized transcript and the full
\* serialized settings the dashboard renders, and the stored settings have
\* the three members of a settings record.
SettingsMembers == {"temperature", "top_k", "similarity_threshold"}
C15_WriteThrough ==
  boot.phase \in {"rehydrating", "started"} =>
    /\ localStorage["chatMessages"] = <<StringifyMessages(chatMessages)>>
    /\ localStorage["chatSettings"] = <<StringifySettings(chatSettings)>>
    /\ DOMAIN localStorage["chatSettings"][1].value = SettingsMembers

\* a restarted page with edited settings, a resolved and a pending exchange
C15_Witness ==
  /\ reloads = 1
  /\ boot.phase = "started"
  /\ chatSettings # DefaultSettings
  /\ Len(chatMessages) = 4
  /\ Len(asks) = 1
  /\ localStorage["chatMessages"] = <<StringifyMessages(chatMessages)>>
  /\ localStorage["chatSettings"] = <<StringifySettings(chatSettings)>>

\* C16: the ask of an accepted submit is a POST whose body names the trimmed
\* question 'question' and whose path is /ask_model when the mode is model,
\* and names it 'query' with path /ask/ when the mode is api; in both cases
\* the body has the members temperature, top_k and similarity_threshold.
C16_QuestionFieldByMode ==
  [][SubmitStep =>
       LET a == asks'[Len(asks')]
       IN /\ a.call.method = "POST"
          /\ a.call.body.text = Trim(inputValue)
          /\ a.call.body.field = IF backendMode = "model" THEN "question"
                                                         ELSE "query"
          /\ a.call.url[2] = IF backendMode = "model" THEN "/ask_model"
                                                     ELSE "/ask/"
          /\ DOMAIN a.call.body =
               {"field", "text", "temperature", "top_k", "similarity_threshold"}
    ]_vars

\* an ask in flight sent in mode model with the settings that are not the
\* defaults
C16_Witness ==
  /\ Len(asks) = 1
  /\ asks[1].call.body.field = "question"
  /\ asks[1].call.url = <<"http://localhost:8001", "/ask_model">>
  /\ asks[1].call.body.text = <<"q">>
  /\ asks[1].call.body.top_k = 3
  /\ asks[1].call.body.similarity_threshold = 4

\* C17: every request goes to the address of its operation: health, list,
\* upload and clear to the primary address, the two diagram operations to
\* the local one, and an ask to the address of the mode it was made in,
\* whatever the mode of the session or of earlier calls.
C17_AddressByOperation ==
  \A k \in 1..Len(wire) :
    wire[k].call.url[1] =
      CASE wire[k].op \in {"checkHealth", "listCodebaseFiles",
                           "uploadCodeFiles", "clearCodebase"}
             -> "http://localhost:8000"
        [] wire[k].op \in {"generateModuleDiagram", "generateChunkDiagram"}
             -> "http://localhost:8001"
        [] OTHER
             -> IF wire[k].mode = "api" THEN "http://localhost:8000"
                                        ELSE "http://localhost:8001"

\* a health check made in mode model after an ask made in mode model
C17_Witness ==
  /\ Len(wire) = 2
  /\ wire[1].op = "ask"
  /\ wire[1].mode = "model"
  /\ wire[2].op = "checkHealth"
  /\ wire[2].mode = "model"
  /\ wire[2].call.url = <<"http://localhost:8000", "/health">>

\* C18: in mode api no step issues a diagram call, and a step that shows a
\* diagram without a call having settled throws nothing and shows the
\* flowchart skeleton when the chunk has a non-empty function name, else the
\* class diagram skeleton when its type is 'class' or its content includes
\* 'class ' or 'struct ', else the generic stub.
ShowsLocalDiagram ==
  /\ backendMode = "api"
  /\ diagramCalls' = diagramCalls
  /\ currentChunkDiagram' # <<>>
  /\ currentChunkDiagram' # currentChunkDiagram
C18_LocalDiagramInModeApi ==
  [][/\ backendMode = "api" =>
          /\ Len(diagramCalls') <= Len(diagramCalls)
          /\ wire' = wire
          /\ asks' = asks
     /\ ShowsLocalDiagram =>
          LET c == currentChunkDiagram'[1].chunk
              named == c.function_name # <<>> /\ c.function_name[1] # ""
              classLike ==
                \/ c.type = "class"
                \/ Includes(c.content, <<"c", "l", "a", "s", "s", " ">>)
                \/ Includes(c.content, <<"s", "t", "r", "u", "c", "t", " ">>)
          IN /\ showChunkDiagramModal'
             /\ uncaught' = uncaught
             /\ named =>
                  currentChunkDiagram'[1].mermaidSyntax =
                    <<"graph TD\n    A[Start ", c.function_name[1],
                      "] --> B{Process?}\n    B -- Yes --> C[Do Something]\n    C --> D[End]\n    B -- No --> D">>
             /\ ~named /\ classLike =>
                  currentChunkDiagram'[1].mermaidSyntax[1] =
                    "classDiagram\n    class MyClass {\n        + myMethod()\n        - myField\n    }\n    MyClass <|-- AnotherClass\n    MyClass : +memberVariable\n    MyClass : +memberFunction()"
             /\ ~named /\ ~classLike =>
                  currentChunkDiagram'[1].mermaidSyntax[1] =
                    "graph TD\n    A[Code Chunk] --> B[Content Analysis]\n    B --> C[No specific structure found]"
    ]_vars

\* the flowchart of parseInput shown in mode api for a chunk of type class
C18_Witness ==
  /\ backendMode = "api"
  /\ diagramCalls = <<>>
  /\ showChunkDiagramModal
  /\ currentChunkDiagram # <<>>
  /\ currentChunkDiagram[1].chunk.function_name = <<"parseInput">>
  /\ currentChunkDiagram[1].chunk.type = "class"
  /\ currentChunkDiagram[1].mermaidSyntax[2] = "parseInput"

\* C19: a listing that returns raises nothing to its caller; when it
\* succeeded the file list is the server's, hasBackendFiles tells whether it
\* is non-empty and the list is stored; when it failed, list and flag are
\* those of the stored snapshot if there is one and unchanged otherwise.
ListReturnStep == Len(listCalls') = Len(listCalls) - 1
C19_RefreshNeverRaises ==
  [][ListReturnStep =>
       /\ uncaught' = uncaught
       /\ \/ \E fs \in FileLists :
               /\ localFiles' = fs
               /\ hasBackendFiles' = (Len(fs) > 0)
               /\ localStorage'["uploadedFiles"] = <<StringifyFiles(fs)>>
          \/ /\ localStorage["uploadedFiles"] = <<>>
             /\ UNCHANGED <<localFiles, hasBackendFiles, localStorage>>
          \/ /\ localStorage["uploadedFiles"] # <<>>
             /\ localStorage' = localStorage
             /\ StringifyFiles(localFiles') = localStorage["uploadedFiles"][1]
             /\ hasBackendFiles' = (Len(localFiles') > 0)
    ]_vars

\* C20: hasBackendFiles is true only when the file list is non-empty, also
\* after an upload whose listing came back empty or failed.
C20_FlagOnlyWithFiles == hasBackendFiles => Len(localFiles) > 0

\* C21: a call of a client operation puts exactly one request on the wire,
\* a failed request is not sent again, and the Error thrown for a response
\* that is not 2xx holds both the status code and the body text of the
\* response.
C21_OneRequestAndStatusWithBody ==
  /\ [][/\ wire' # wire =>
             /\ Len(wire') = Len(wire) + 1
             /\ SubSeq(wire', 1, Len(wire)) = wire
        /\ Len(rejected') = Len(rejected) + 1 => wire' = wire]_vars
  /\ [](\A j \in 1..Len(rejected) :
          rejected[j].failure.kind = "http" =>
            /\ Includes(rejected[j].message, <<rejected[j].failure.status>>)
            /\ Includes(rejected[j].message, rejected[j].failure.body))

\* C22: in every transcript the message ids are pairwise distinct, also when
\* a submit follows the previous one in the same or the next clock tick.
C22_IdsPairwiseDistinct ==
  \A j, k \in 1..Len(chatMessages) :
    j # k => chatMessages[j].id # chatMessages[k].id

\* C23: the backend mode in memory is always one of the two modes; when
\* durable storage holds one of the two modes, it is the mode in memory, and
\* a mode missing from storage or stored as any other text leaves the mode
\* in memory the mode api chosen at startup.
C23_ModeIsEnumAndStored ==
  /\ backendMode \in Modes
  /\ IF localStorage["backendMode"] # <<>>
          /\ localStorage["backendMode"][1] \in Modes
       THEN backendMode = localStorage["backendMode"][1]
       ELSE backendMode = "api"

\* C24: every pending assistant message of the transcript belongs to an ask
\* that is outstanding and whose continuation can still update it, also
\* after a reload of the page.
C24_NoOrphanPending ==
  \A k \in 1..Len(chatMessages) :
    IsPending(chatMessages[k]) =>
      \E a \in 1..Len(asks) :
        asks[a].live /\ asks[a].botMessageId = chatMessages[k].id

\* C25: the temperature, top_k and similarity_threshold in the body of the
\* ask an accepted submit sends are the values of the settings at the time
\* of the submit, in both modes and for the value 0 too.
C25_BodyCarriesSettings ==
  [][SubmitStep =>
       LET body == asks'[Len(asks')].call.body
       IN /\ body.temperature = chatSettings.temperature
          /\ body.top_k = chatSettings.top_k
          /\ body.similarity_threshold = chatSettings.similarity_threshold
    ]_vars

C27_LoadingEndsHealthOnlyStatus ==
  [][/\ ListReturnStep => ~loading'
     /\ ~loading => ~loading'
     /\ healthCalls' = healthCalls - 1 =>
          /\ backendStatus' \in {"connected", "disconnected"}
          /\ UNCHANGED <<localFiles, hasBackendFiles, chatMessages, loading,
                         localStorage, uncaught>>
    ]_vars

====
